---- MODULE Spec2Model ----
(***************************************************************************)
(* Model of src/src/resolver/wrap-in-map.ts of graphql-mocks:              *)
(*   - wrapResolverInMap: builds a resolver-map wrapper (a closure over    *)
(*     typeName, fieldName, resolverWrappers and resolver) that is later   *)
(*     applied to (resolverMap, packOptions);                              *)
(*   - findMatchingModelsForType / mirageRootQueryResolver: the mirage     *)
(*     auto resolver of root query fields.                                 *)
(* Objects that have identity in the program (resolver maps, arrays) live  *)
(* in heaps and are named by their index.                                  *)
(***************************************************************************)
EXTENDS Integers, Sequences, FiniteSets, TLC

VARIABLES
    maps,       \* heap of resolverMap objects: id -> [type -> [field -> resolver]]
    arrays,     \* heap of wrapper arrays: id -> sequence of wrappers
    closures,   \* the map wrappers returned by wrapResolverInMap, with their captured variables
    applies,    \* number of applications of map wrappers so far
    last,       \* what the most recent application of a map wrapper did
    call,       \* the arguments of the running call of mirageRootQueryResolver
    pc,         \* its position
    result,     \* its local variable result
    errorMeta,  \* its local variable errorMeta
    outcome,    \* what it returned or threw
    trace       \* the calls it made to its collaborators, in order

wrapVars == <<maps, arrays, closures, applies, last>>

mirageVars == <<call, pc, result, errorMeta, outcome, trace>>

vars == <<maps, arrays, closures, applies, last, call, pc, result, errorMeta, outcome, trace>>

----------------------------------------------------------------------------
\* Bounds of the model

NMaps == 2
NClosures == 1
MaxApplies == 3

----------------------------------------------------------------------------
\* Values

Types == {"Query", "User"}
Fields == {"a", "b"}

None == [kind |-> "undefined"]
BaseResolver(n) == [kind |-> "resolver", name |-> n]

embedPackOptions == "embedPackOptions"
WrapperLists == {<<>>, <<"w2", "w1">>}
\* the (typeName, fieldName) pairs map wrappers are created for
WrapTargets == {<<"Query", "a">>, <<"User", "b">>}

NoSchema == [kind |-> "undefined"]
SchemaOf(pairs) == [kind |-> "schema", fields |-> pairs]
FullSchema == SchemaOf(Types \X Fields)
QueryOnlySchema == SchemaOf({"Query"} \X Fields)
PackOptionsSet == {[dependencies |-> [graphqlSchema |-> s]] : s \in {NoSchema, FullSchema, QueryOnlySchema}}

EmptyObject == [x \in {} |-> None]

R1 == BaseResolver("r1")
R2 == BaseResolver("r2")
FieldsAB == [f \in {"a", "b"} |-> IF f = "a" THEN R1 ELSE R2]
MapEmptyType == [t \in {"Query"} |-> EmptyObject]
MapQueryA == [t \in {"Query"} |-> [f \in {"a"} |-> R1]]
MapBoth == [t \in {"Query", "User"} |-> FieldsAB]
\* the resolver maps the program starts with: one with every resolver, one with an
\* empty Query type and no User type, the others with the single resolver Query.a
InitialMap(m) ==
    IF m = 1 THEN MapBoth
    ELSE IF m = 2 THEN MapEmptyType
    ELSE MapQueryA

----------------------------------------------------------------------------
\* Collaborators of wrapResolverInMap (../utils, ./wrap)

\* resolverMap[typeName]?.[fieldName]
LookupResolver(resolverMap, typeName, fieldName) ==
    IF typeName \in DOMAIN resolverMap /\ fieldName \in DOMAIN resolverMap[typeName]
    THEN resolverMap[typeName][fieldName]
    ELSE None

\* getTypeAndField(typeName, fieldName, schema): throws when the schema has no such type or field
getTypeAndField(typeName, fieldName, schema) ==
    IF schema # NoSchema /\ <<typeName, fieldName>> \in schema.fields
    THEN [threw |-> FALSE, type |-> typeName, field |-> fieldName]
    ELSE [threw |-> TRUE, type |-> "", field |-> ""]

\* wrapResolver(resolver, wrappers, options): applies every wrapper, in order, to the resolver
wrapResolver(resolver, wrappers, options) ==
    [kind |-> "wrapped", resolver |-> resolver, wrappers |-> wrappers, options |-> options]

\* addResolverToMap({resolverMap, typeName, fieldName, resolver, overwrite})
addResolverToMap(resolverMap, typeName, fieldName, resolver, overwrite) ==
    LET inner == IF typeName \in DOMAIN resolverMap THEN resolverMap[typeName] ELSE EmptyObject
        inner2 == [g \in DOMAIN inner \cup {fieldName} |-> IF g = fieldName THEN resolver ELSE inner[g]]
    IN  IF fieldName \in DOMAIN inner /\ ~overwrite
        THEN [threw |-> TRUE, map |-> resolverMap]
        ELSE [threw |-> FALSE,
              map |-> [u \in DOMAIN resolverMap \cup {typeName} |->
                          IF u = typeName THEN inner2 ELSE resolverMap[u]]]

----------------------------------------------------------------------------
\* wrapResolverInMap

NoClosure == [kind |-> "none"]

\* The closure created by a call of wrapResolverInMap. typeName, fieldName,
\* resolverWrappers (a reference to an array) and resolver are its captured
\* parameters; argWrappers, argWrappersValue, argResolver and passedSchemaCheck
\* are history: what the caller passed, and whether an application got past line 17.
NewClosure(typeName, fieldName, wrappersRef, wrappersValue, resolver) ==
    [kind |-> "closure", typeName |-> typeName, fieldName |-> fieldName,
     resolverWrappers |-> wrappersRef, resolver |-> resolver,
     argWrappers |-> wrappersRef, argWrappersValue |-> wrappersValue,
     argResolver |-> resolver, passedSchemaCheck |-> FALSE]

\* line 13: if (!schema)
SchemaMissingNever(packOptions) == FALSE
SchemaMissing(packOptions) == packOptions.dependencies.graphqlSchema = NoSchema

\* line 19: resolver = resolver || resolverMap[typeName]?.[fieldName]
ResolverToWrap(cl, resolverMap) ==
    IF cl.resolver # None THEN cl.resolver
    ELSE LookupResolver(resolverMap, cl.typeName, cl.fieldName)

\* line 26: [...resolverWrappers, embedPackOptions], a new array
SpreadWithEmbed(wrappers) == wrappers \o <<embedPackOptions>>

\* lines 35-41: addResolverToMap({..., overwrite: true})
AddWrappedSwapped(resolverMap, cl, wrappedResolver) ==
    addResolverToMap(resolverMap, cl.fieldName, cl.typeName, wrappedResolver, TRUE)
AddWrapped(resolverMap, cl, wrappedResolver) ==
    addResolverToMap(resolverMap, cl.typeName, cl.fieldName, wrappedResolver, TRUE)

NoApplication == [outcome |-> "none"]

Application(c, m, packOptions, how, returned, resolver, wrappers, invoked) ==
    [outcome |-> how, closure |-> c, map |-> m, packOptions |-> packOptions,
     mapBefore |-> maps[m], closureBefore |-> closures[c], arraysBefore |-> arrays,
     returned |-> returned, resolver |-> resolver, wrappers |-> wrappers, invoked |-> invoked]

\* A call wrapResolverInMap(typeName, fieldName, resolverWrappers, resolver?): lines 5-11 and 45
WrapResolverInMap(c, typeName, fieldName, wrappers, resolver) ==
    /\ closures[c] = NoClosure
    /\ \A d \in 1..(c - 1) : closures[d] # NoClosure
    /\ arrays' = Append(arrays, wrappers)
    /\ closures' = [closures EXCEPT ![c] =
                       NewClosure(typeName, fieldName, Len(arrays) + 1, wrappers, resolver)]
    /\ UNCHANGED <<maps, applies, last>>
    /\ UNCHANGED mirageVars

\* An application of map wrapper c to (resolverMap m, packOptions): lines 11-44
ApplyMapWrapper(c, m, packOptions) ==
    /\ applies < MaxApplies
    /\ closures[c] # NoClosure
    /\ applies' = applies + 1
    /\ UNCHANGED mirageVars
    /\ LET cl == closures[c]
           schema == packOptions.dependencies.graphqlSchema
           resolver == ResolverToWrap(cl, maps[m])
           newWrappers == SpreadWithEmbed(arrays[cl.resolverWrappers])
           newRef == Len(arrays) + 1
       IN  IF SchemaMissing(packOptions)
           THEN \* lines 13-17
                /\ last' = Application(c, m, packOptions, "schemaError", 0, None, <<>>, <<>>)
                /\ UNCHANGED <<maps, arrays, closures>>
           ELSE IF resolver = None
           THEN \* lines 19-24
                /\ closures' = [closures EXCEPT ![c].resolver = resolver,
                                                ![c].passedSchemaCheck = TRUE]
                /\ last' = Application(c, m, packOptions, "resolverError", 0, None, <<>>, <<>>)
                /\ UNCHANGED <<maps, arrays>>
           ELSE \* lines 26-43
                /\ arrays' = Append(arrays, newWrappers)
                /\ closures' = [closures EXCEPT ![c].resolver = resolver,
                                                ![c].resolverWrappers = newRef,
                                                ![c].passedSchemaCheck = TRUE]
                /\ IF getTypeAndField(cl.typeName, cl.fieldName, schema).threw
                   THEN /\ last' = Application(c, m, packOptions, "typeFieldError", 0, None, <<>>, <<>>)
                        /\ UNCHANGED maps
                   ELSE LET tf == getTypeAndField(cl.typeName, cl.fieldName, schema)
                            wrappedResolver ==
                                wrapResolver(resolver, newWrappers,
                                             [type |-> tf.type, field |-> tf.field,
                                              resolvers |-> m, packOptions |-> packOptions])
                            added == AddWrapped(maps[m], cl, wrappedResolver)
                        IN  IF added.threw
                            THEN /\ last' = Application(c, m, packOptions, "addError", 0,
                                                        resolver, newWrappers, newWrappers)
                                 /\ UNCHANGED maps
                            ELSE /\ maps' = [maps EXCEPT ![m] = added.map]
                                 /\ last' = Application(c, m, packOptions, "ok", m,
                                                        resolver, newWrappers, newWrappers)

WrapInit ==
    /\ maps = [m \in 1..NMaps |-> InitialMap(m)]
    /\ arrays = <<>>
    /\ closures = [c \in 1..NClosures |-> NoClosure]
    /\ applies = 0
    /\ last = NoApplication

WrapNext ==
    \/ \E c \in 1..NClosures, tf \in WrapTargets, ws \in WrapperLists, r \in {None, R2} :
          WrapResolverInMap(c, tf[1], tf[2], ws, r)
    \/ \E c \in 1..NClosures, m \in 1..NMaps, po \in PackOptionsSet :
          ApplyMapWrapper(c, m, po)

----------------------------------------------------------------------------
\* Values of the mirage auto resolver

Null == [kind |-> "null"]
Undefined == [kind |-> "undefined"]
\* a string, as the sequence of the words it is made of ("UserConnection" is <<"User", "Connection">>)
Str(tokens) == [kind |-> "string", tokens |-> tokens]
ListOf(items) == [kind |-> "list", items |-> items]
Object(v) == [kind |-> "object", v |-> v]
Nullish(x) == x = Null \/ x = Undefined
\* Boolean(x) of a string or undefined
Truthy(x) == x # Undefined /\ x # Str(<<>>)

Named(name, scalar) == [kind |-> "named", name |-> Str(name), scalar |-> scalar]
ListType(t) == [kind |-> "list", ofType |-> t]
NonNull(t) == [kind |-> "nonNull", ofType |-> t]
NamedTypes ==
    { Named(<<"User">>, FALSE), Named(<<"User", "Connection">>, FALSE),
      Named(<<"Connection">>, FALSE),
      Named(<<"String">>, TRUE), Named(<<"Cursor", "Connection">>, TRUE) }
ReturnTypes == NamedTypes \cup {NonNull(ListType(NonNull(t))) : t \in NamedTypes}

ArgsSet == {"valid", "invalid"}

FilterKinds == {"none", "identity", "object", "null", "throws"}
Mapper(mapping, fieldFilter) == [kind |-> "mapper", mapping |-> mapping, fieldFilter |-> fieldFilter]
Mappers ==
    {Undefined} \cup {Mapper(mp, ff) : mp \in {Undefined, Str(<<"Mapped">>)}, ff \in FilterKinds}

ModelNames == {Str(<<"Mapped">>), Str(<<"User">>), Str(<<"User", "Connection">>), Str(<<"Connection">>)}
Server(collections, miss, all) ==
    [kind |-> "server", collections |-> collections, miss |-> miss, all |-> all]
Servers ==
    {Undefined} \cup
    {Server(cs, miss, all) : cs \in SUBSET ModelNames, miss \in {"throws", "falsy"},
                             all \in {"models", "nullish", "throws"}}

----------------------------------------------------------------------------
\* Collaborators of the mirage auto resolver (graphql, miragejs, ../mapper, ../../relay,
\* ../../graphql/utils, ../../resolver/utils, ./utils)

\* unwrap(type): the named type inside the list and non-null wrappers
RECURSIVE unwrap(_)
unwrap(type) == IF type.kind = "named" THEN type ELSE unwrap(type.ofType)

\* isScalarType(type)
isScalarType(type) == type.scalar

RECURSIVE hasListType(_)
hasListType(type) ==
    IF type.kind = "list" THEN TRUE
    ELSE IF type.kind = "nonNull" THEN hasListType(type.ofType)
    ELSE FALSE

\* name.endsWith('Connection')
endsWithConnection(name) ==
    Len(name.tokens) > 0 /\ name.tokens[Len(name.tokens)] = "Connection"

\* cleanRelayConnectionName(name): the name without its Connection suffix
cleanRelayConnectionName(name) ==
    IF endsWithConnection(name) THEN Str(SubSeq(name.tokens, 1, Len(name.tokens) - 1)) ELSE name

\* mirageMapper.findMatchForType(typeName)
findMatchForType(mirageMapper, typeName) == mirageMapper.mapping

\* mirageMapper.findFieldFilter([typeName, fieldName])
findFieldFilter(mirageMapper, key) ==
    IF mirageMapper.fieldFilter = "none" THEN Undefined
    ELSE [kind |-> "function", behaviour |-> mirageMapper.fieldFilter]

\* mirageServer.schema.collectionForType(name)
collectionForType(mirageServer, name) ==
    IF name \in mirageServer.collections THEN [threw |-> FALSE, truthy |-> TRUE]
    ELSE IF mirageServer.miss = "throws" THEN [threw |-> TRUE, truthy |-> FALSE]
    ELSE [threw |-> FALSE, truthy |-> FALSE]

\* mirageServer.schema.all(name)
schemaAll(mirageServer, name) ==
    IF mirageServer.all = "throws" THEN [threw |-> TRUE, value |-> Undefined]
    ELSE IF mirageServer.all = "nullish" THEN [threw |-> FALSE, value |-> Null]
    ELSE [threw |-> FALSE, value |-> [models |-> ListOf(<<"n1", "n2">>)]]

\* coerceToList(subject)
coerceToList(subject) ==
    IF Nullish(subject) THEN subject
    ELSE IF subject.kind = "list" THEN subject
    ELSE ListOf(<<subject.v>>)

\* coerceReturnType(result, info)
coerceReturnType(res, info) ==
    IF Nullish(res) THEN [threw |-> FALSE, value |-> res]
    ELSE IF hasListType(info.returnType) THEN [threw |-> FALSE, value |-> coerceToList(res)]
    ELSE IF res.kind # "list" THEN [threw |-> FALSE, value |-> res]
    ELSE IF Len(res.items) = 1 THEN [threw |-> FALSE, value |-> Object(res.items[1])]
    ELSE [threw |-> TRUE, value |-> Undefined]

\* relayPaginateNodes(nodes, args, mirageCursorForNode)
relayPaginateNodes(nodes, args) ==
    IF args = "invalid" THEN [threw |-> TRUE, value |-> Undefined]
    ELSE [threw |-> FALSE, value |-> [kind |-> "connection", nodes |-> nodes, args |-> args]]

\* a call of a field filter
callFieldFilter(fieldFilter, list) ==
    IF fieldFilter.behaviour = "throws" THEN [threw |-> TRUE, value |-> Undefined]
    ELSE IF fieldFilter.behaviour = "identity" THEN [threw |-> FALSE, value |-> list]
    ELSE IF fieldFilter.behaviour = "object" THEN [threw |-> FALSE, value |-> Object("o")]
    ELSE [threw |-> FALSE, value |-> Null]

PlainError(message, about) == [kind |-> "throw", class |-> "Error", message |-> message, about |-> about]
AutoResolverError(error, meta) ==
    [kind |-> "throw", class |-> "AutoResolverError", cause |-> error, meta |-> meta]
Returned(value) == [kind |-> "return", value |-> value]

----------------------------------------------------------------------------
\* findMatchingModelsForType

\* line 66
MappedModelName(mirageMapper, typeName) ==
    IF mirageMapper = Undefined THEN Undefined
    ELSE IF ~Truthy(typeName) THEN typeName
    ELSE findMatchForType(mirageMapper, typeName)

SelectTruthy(s) == SelectSeq(s, Truthy)

\* line 72
ModelNameCandidatesTypeFirst(mappedModelName, typeName) ==
    SelectTruthy(<<typeName, cleanRelayConnectionName(typeName), mappedModelName>>)
ModelNameCandidates(mappedModelName, typeName) ==
    SelectTruthy(<<mappedModelName, cleanRelayConnectionName(typeName), typeName>>)

\* lines 75-81: the callback of find
CandidateFound(mirageServer, candidate) ==
    /\ mirageServer # Undefined
    /\ ~collectionForType(mirageServer, candidate).threw
    /\ collectionForType(mirageServer, candidate).truthy

\* lines 74-82: the index find stops at, 0 when no candidate is found
MatchedIndex(candidates, mirageServer) ==
    LET hits == {i \in 1..Len(candidates) : CandidateFound(mirageServer, candidates[i])}
    IN  IF hits = {} THEN 0 ELSE CHOOSE i \in hits : \A j \in hits : i <= j

\* lines 84-91
LookupModelsSwallow(mirageServer, matchedModelName) ==
    IF mirageServer = Undefined \/ schemaAll(mirageServer, matchedModelName).threw
    THEN [threw |-> FALSE, models |-> ListOf(<<>>)]
    ELSE LET all == schemaAll(mirageServer, matchedModelName)
         IN  [threw |-> FALSE, models |-> IF Nullish(all.value) THEN Undefined ELSE all.value.models]
LookupModels(mirageServer, matchedModelName) ==
    IF mirageServer = Undefined \/ schemaAll(mirageServer, matchedModelName).threw
    THEN [threw |-> TRUE, models |-> ListOf(<<>>)]
    ELSE LET all == schemaAll(mirageServer, matchedModelName)
         IN  [threw |-> FALSE, models |-> IF Nullish(all.value) THEN Undefined ELSE all.value.models]

\* lines 59-98; events are the calls made to the mirage server
findMatchingModelsForType(type, mirageMapper, mirageServer) ==
    LET named == unwrap(type)
        mappedModelName == MappedModelName(mirageMapper, named.name)
        modelNameCandidates == ModelNameCandidates(mappedModelName, named.name)
        index == MatchedIndex(modelNameCandidates, mirageServer)
        matchedModelName == IF index = 0 THEN Undefined ELSE modelNameCandidates[index]
        tried == IF mirageServer = Undefined THEN 0
                 ELSE IF index = 0 THEN Len(modelNameCandidates) ELSE index
        finds == [i \in 1..tried |->
                    [op |-> "collectionForType", arg |-> modelNameCandidates[i],
                     threw |-> collectionForType(mirageServer, modelNameCandidates[i]).threw]]
        looked == LookupModels(mirageServer, matchedModelName)
        alls == IF mirageServer = Undefined THEN <<>>
                ELSE <<[op |-> "all", arg |-> matchedModelName, threw |-> looked.threw]>>
    IN  [threw |-> looked.threw,
         models |-> looked.models,
         matchedModelName |-> matchedModelName,
         modelNameCandidates |-> modelNameCandidates,
         events |-> finds \o alls]

----------------------------------------------------------------------------
\* mirageRootQueryResolver

Info(returnType) == [returnType |-> returnType, fieldName |-> "field", parentType |-> [name |-> "Query"]]
Context(mirageMapper, mirageServer) == [mirageMapper |-> mirageMapper, mirageServer |-> mirageServer]
NoCall == [kind |-> "none"]
NoOutcome == [kind |-> "none"]

\* line 102
IsRelayPaginatedNever(returnType) == FALSE
IsRelayPaginated(returnType) == endsWithConnection(unwrap(returnType).name)

\* line 108
FieldFilterOf(c) ==
    IF c.context.mirageMapper = Undefined THEN Undefined
    ELSE findFieldFilter(c.context.mirageMapper, <<c.info.parentType.name, c.info.fieldName>>)

\* line 123
HasScalarInReturnType(c) == isScalarType(unwrap(c.info.returnType))

\* line 138: if (!hasScalarInReturnType)
LooksUpModelsAlways(hasScalarInReturnType) == TRUE
LooksUpModels(hasScalarInReturnType) == ~hasScalarInReturnType

\* line 150: coerceToList(result) ?? []
FilterArgument(res) ==
    IF Nullish(coerceToList(res)) THEN ListOf(<<>>) ELSE coerceToList(res)

\* lines 149-152
FilterStepFlagFirst(fieldFilter, res, meta) ==
    IF fieldFilter = Undefined
    THEN [threw |-> FALSE, result |-> res, meta |-> meta, events |-> <<>>]
    ELSE LET arg == FilterArgument(res)
             r == callFieldFilter(fieldFilter, arg)
             ev == <<[op |-> "fieldFilter", arg |-> arg, threw |-> r.threw]>>
             used == [meta EXCEPT !.usedFieldFilter = TRUE]
         IN  IF r.threw
             THEN [threw |-> TRUE, result |-> res, meta |-> used, events |-> ev]
             ELSE [threw |-> FALSE, result |-> r.value, meta |-> used, events |-> ev]
FilterStep(fieldFilter, res, meta) ==
    IF fieldFilter = Undefined
    THEN [threw |-> FALSE, result |-> res, meta |-> meta, events |-> <<>>]
    ELSE LET arg == FilterArgument(res)
             r == callFieldFilter(fieldFilter, arg)
             ev == <<[op |-> "fieldFilter", arg |-> arg, threw |-> r.threw]>>
         IN  IF r.threw
             THEN [threw |-> TRUE, result |-> res, meta |-> meta, events |-> ev]
             ELSE [threw |-> FALSE, result |-> r.value,
                   meta |-> [meta EXCEPT !.usedFieldFilter = TRUE], events |-> ev]

\* lines 154-159
FinishStep(isRelayPaginated, res, args, info) ==
    IF isRelayPaginated
    THEN LET nodes == coerceToList(res)
         IN  IF Nullish(nodes)
             THEN [threw |-> FALSE, value |-> nodes, events |-> <<>>]
             ELSE LET p == relayPaginateNodes(nodes, args)
                  IN  [threw |-> p.threw, value |-> p.value,
                       events |-> <<[op |-> "relayPaginateNodes", arg |-> nodes,
                                     args |-> args, threw |-> p.threw]>>]
    ELSE LET r == coerceReturnType(res, info)
         IN  [threw |-> r.threw, value |-> r.value,
              events |-> <<[op |-> "coerceReturnType", arg |-> res, threw |-> r.threw]>>]

\* lines 100-123: the call and its local variables
Start(returnType, args, mirageMapper, mirageServer) ==
    /\ pc = "idle"
    /\ call' = [info |-> Info(returnType), args |-> args,
                context |-> Context(mirageMapper, mirageServer)]
    /\ errorMeta' = [args |-> args, info |-> Info(returnType),
                     context |-> Context(mirageMapper, mirageServer),
                     autoResolverType |-> "ROOT_TYPE",
                     isRelay |-> IsRelayPaginated(returnType),
                     usedFieldFilter |-> FALSE,
                     hasFieldFilter |-> FieldFilterOf(call') # Undefined,
                     match |-> Undefined]
    /\ result' = Null
    /\ outcome' = NoOutcome
    /\ trace' = <<>>
    /\ pc' = "guard"
    /\ UNCHANGED wrapVars

\* lines 128-136
ScalarGuard ==
    /\ pc = "guard"
    /\ IF HasScalarInReturnType(call) /\ FieldFilterOf(call) = Undefined
       THEN /\ outcome' = PlainError("Scalars cannot be auto-resolved", unwrap(call.info.returnType).name)
            /\ pc' = "done"
       ELSE /\ pc' = "lookup"
            /\ UNCHANGED outcome
    /\ UNCHANGED <<call, result, errorMeta, trace>>
    /\ UNCHANGED wrapVars

\* lines 138-146
Lookup ==
    /\ pc = "lookup"
    /\ IF LooksUpModels(HasScalarInReturnType(call))
       THEN LET match == findMatchingModelsForType(call.info.returnType,
                                                   call.context.mirageMapper,
                                                   call.context.mirageServer)
            IN  /\ trace' = trace \o match.events
                /\ IF match.threw
                   THEN /\ outcome' = PlainError("Unable to look up collection", match.matchedModelName)
                        /\ pc' = "done"
                        /\ UNCHANGED <<result, errorMeta>>
                   ELSE /\ errorMeta' = [errorMeta EXCEPT !.match =
                                            [models |-> match.models,
                                             matchedModelName |-> match.matchedModelName,
                                             modelNameCandidates |-> match.modelNameCandidates]]
                        /\ result' = match.models
                        /\ pc' = "filter"
                        /\ UNCHANGED outcome
       ELSE /\ pc' = "filter"
            /\ UNCHANGED <<result, errorMeta, outcome, trace>>
    /\ UNCHANGED call
    /\ UNCHANGED wrapVars

\* lines 148-152 and 160-162
Filter ==
    /\ pc = "filter"
    /\ LET step == FilterStep(FieldFilterOf(call), result, errorMeta)
       IN  /\ trace' = trace \o step.events
           /\ errorMeta' = step.meta
           /\ result' = step.result
           /\ IF step.threw
              THEN /\ outcome' = AutoResolverError("fieldFilter", step.meta)
                   /\ pc' = "done"
              ELSE /\ pc' = "finish"
                   /\ UNCHANGED outcome
    /\ UNCHANGED call
    /\ UNCHANGED wrapVars

\* lines 154-162
Finish ==
    /\ pc = "finish"
    /\ LET step == FinishStep(IsRelayPaginated(call.info.returnType), result, call.args, call.info)
       IN  /\ trace' = trace \o step.events
           /\ outcome' = IF step.threw
                         THEN AutoResolverError(step.events[1].op, errorMeta)
                         ELSE Returned(step.value)
    /\ pc' = "done"
    /\ UNCHANGED <<call, result, errorMeta>>
    /\ UNCHANGED wrapVars

\* the caller has the outcome; the locals of the call are gone
Return ==
    /\ pc = "done"
    /\ call' = NoCall
    /\ pc' = "idle"
    /\ result' = Null
    /\ errorMeta' = Undefined
    /\ outcome' = NoOutcome
    /\ trace' = <<>>
    /\ UNCHANGED wrapVars

MirageInit ==
    /\ call = NoCall
    /\ pc = "idle"
    /\ result = Null
    /\ errorMeta = Undefined
    /\ outcome = NoOutcome
    /\ trace = <<>>

MirageNext ==
    \/ /\ pc = "idle"
       /\ \E rt \in ReturnTypes, args \in ArgsSet, mapper \in Mappers, server \in Servers :
             Start(rt, args, mapper, server)
    \/ ScalarGuard
    \/ Lookup
    \/ Filter
    \/ Finish
    \/ Return

----------------------------------------------------------------------------

Init == WrapInit /\ MirageInit

Next == WrapNext \/ MirageNext

Spec == Init /\ [][Next]_vars

\* the map wrappers alone
WrapSpec == Init /\ [][WrapNext]_vars

\* the mirage auto resolver alone
MirageSpec == Init /\ [][MirageNext]_vars

----------------------------------------------------------------------------
\* Properties of the map wrappers (checked under WrapSpec)

Applied == last.outcome # "none"
LastClosure == closures[last.closure]
LastSchema == last.packOptions.dependencies.graphqlSchema
LastTarget == <<LastClosure.typeName, LastClosure.fieldName>>
\* the (type, field) entries of a resolver map
Entries(resolverMap) ==
    UNION {{<<t, f>> : f \in DOMAIN resolverMap[t]} : t \in DOMAIN resolverMap}

\* C1: a successful application of a map wrapper returns the resolverMap it was
\* given, leaves the newly wrapped resolver at [typeName][fieldName] of that map
\* (whatever was there before), and leaves every other entry of the map as it was.
C1_OnlyTargetEntryReplaced ==
    last.outcome = "ok" =>
        LET now == maps[last.map]
            before == last.mapBefore
            new == LookupResolver(now, LastTarget[1], LastTarget[2])
        IN  /\ last.returned = last.map
            /\ new # None
            /\ new.kind = "wrapped"
            /\ new.resolver = last.resolver
            /\ new.wrappers = last.wrappers
            /\ new.options.resolvers = last.map
            /\ new.options.packOptions = last.packOptions
            /\ Entries(now) = Entries(before) \cup {LastTarget}
            /\ DOMAIN now = DOMAIN before \cup {LastTarget[1]}
            /\ \A tf \in Entries(now) \ {LastTarget} : now[tf[1]][tf[2]] = before[tf[1]][tf[2]]

C1_Witness ==
    /\ last.outcome = "ok"
    /\ LookupResolver(last.mapBefore, LastTarget[1], LastTarget[2]) # None
    /\ Cardinality(Entries(maps[last.map])) > 1

\* C2: every successful application wraps the resolver passed to wrapResolverInMap
\* if one was passed, and otherwise the resolver found at [typeName][fieldName] of
\* the resolverMap this application is applied to.
C2_WrapsPassedOrThisMapsResolver ==
    last.outcome = "ok" =>
        last.resolver =
            IF LastClosure.argResolver # None THEN LastClosure.argResolver
            ELSE LookupResolver(last.mapBefore, LastTarget[1], LastTarget[2])

\* C3: with a schema, no resolver passed and no resolver at [typeName][fieldName]
\* of the resolverMap, the application throws 'Could not determine resolver to
\* wrap', leaves the resolverMap unchanged and invokes no wrapper.
C3_NoResolverThrows ==
    ( /\ Applied
      /\ LastSchema # NoSchema
      /\ LastClosure.argResolver = None
      /\ LookupResolver(last.mapBefore, LastTarget[1], LastTarget[2]) = None )
    => /\ last.outcome = "resolverError"
       /\ maps[last.map] = last.mapBefore
       /\ last.invoked = <<>>

\* C4: without packOptions.dependencies.graphqlSchema the application throws the
\* '"graphqlSchema" expected' error whatever else is missing, and changes neither
\* the resolverMap nor the captured resolver and wrapper list: a map wrapper that
\* only ever failed this way is as wrapResolverInMap built it.
C4_SchemaCheckedFirst ==
    /\ (Applied /\ LastSchema = NoSchema) =>
          /\ last.outcome = "schemaError"
          /\ maps[last.map] = last.mapBefore
          /\ LastClosure = last.closureBefore
          /\ SubSeq(arrays, 1, Len(last.arraysBefore)) = last.arraysBefore
          /\ last.invoked = <<>>
    /\ \A c \in 1..NClosures :
          (closures[c] # NoClosure /\ ~closures[c].passedSchemaCheck) =>
              /\ closures[c].resolver = closures[c].argResolver
              /\ closures[c].resolverWrappers = closures[c].argWrappers
              /\ arrays[closures[c].argWrappers] = closures[c].argWrappersValue

C4_Witness ==
    /\ Applied
    /\ last.outcome = "schemaError"
    /\ ResolverToWrap(last.closureBefore, last.mapBefore) = None
    /\ applies > 1

\* C7: every successful application wraps with exactly the caller's wrappers, in
\* their order, followed by one embedPackOptions, also when the map wrapper is
\* applied again; the caller's wrappers array is never changed.
C7_CallerWrappersThenOneEmbed ==
    /\ last.outcome = "ok" =>
          last.wrappers = LastClosure.argWrappersValue \o <<embedPackOptions>>
    /\ \A c \in 1..NClosures :
          closures[c] # NoClosure =>
              arrays[closures[c].argWrappers] = closures[c].argWrappersValue

----------------------------------------------------------------------------
\* Properties of the mirage auto resolver (checked under MirageSpec)

Called == call # NoCall
Done == Called /\ pc = "done"
CallMapper == call.context.mirageMapper
CallServer == call.context.mirageServer
CallTypeName == unwrap(call.info.returnType).name
CallScalar == unwrap(call.info.returnType).scalar
CallHasFilter == CallMapper # Undefined /\ CallMapper.fieldFilter # "none"
CallNameEndsWithConnection ==
    Len(CallTypeName.tokens) > 0 /\ CallTypeName.tokens[Len(CallTypeName.tokens)] = "Connection"
TraceIndexes(ops) == {i \in 1..Len(trace) : trace[i].op \in ops}
ServerOps == {"collectionForType", "all"}
FinishOps == {"relayPaginateNodes", "coerceReturnType"}
GuardedOps == {"fieldFilter"} \cup FinishOps

CallMapped == IF CallMapper = Undefined THEN Undefined ELSE CallMapper.mapping
HasCollection(x) == Truthy(x) /\ CallServer # Undefined /\ x \in CallServer.collections
PreferredModelName ==
    IF HasCollection(CallMapped) THEN CallMapped
    ELSE IF HasCollection(cleanRelayConnectionName(CallTypeName))
    THEN cleanRelayConnectionName(CallTypeName)
    ELSE IF HasCollection(CallTypeName) THEN CallTypeName
    ELSE Undefined

\* C5: for a non-scalar return type the matched model name is the first of: the
\* mapper's mapping, the relay-cleaned name, the type name, for which
\* collectionForType returns a truthy value without throwing (none when there is
\* no such candidate).
C5_FirstPreferredCandidate ==
    /\ (Called /\ ~CallScalar /\ pc \in {"filter", "finish", "done"} /\ errorMeta.match # Undefined)
          => errorMeta.match.matchedModelName = PreferredModelName
    /\ (Done /\ ~CallScalar /\ outcome.kind = "throw" /\ outcome.class = "Error")
          => outcome.about = PreferredModelName

C5_Witness ==
    /\ Done
    /\ ~CallScalar
    /\ errorMeta.match # Undefined
    /\ Truthy(CallMapped)
    /\ ~HasCollection(CallMapped)
    /\ errorMeta.match.matchedModelName = cleanRelayConnectionName(CallTypeName)
    /\ cleanRelayConnectionName(CallTypeName) # CallTypeName
    /\ HasCollection(CallTypeName)

\* C6: for a scalar return type, without a field filter the resolver throws the
\* 'Scalars cannot be auto-resolved' error; with one it makes no call to the mirage
\* server, calls the filter with an empty list, and what it returns or throws is
\* determined by the filter's return value.
C6_ScalarNeedsFilter ==
    (Done /\ CallScalar) =>
        IF ~CallHasFilter
        THEN /\ outcome = PlainError("Scalars cannot be auto-resolved", CallTypeName)
             /\ trace = <<>>
        ELSE LET r == callFieldFilter(FieldFilterOf(call), ListOf(<<>>))
                 fin == FinishStep(CallNameEndsWithConnection, r.value, call.args, call.info)
             IN  /\ TraceIndexes(ServerOps) = {}
                 /\ errorMeta.match = Undefined
                 /\ Len(trace) >= 1
                 /\ trace[1].op = "fieldFilter"
                 /\ trace[1].arg = ListOf(<<>>)
                 /\ IF r.threw
                    THEN outcome.kind = "throw" /\ outcome.class = "AutoResolverError"
                                                /\ outcome.cause = "fieldFilter"
                    ELSE /\ result = r.value
                         /\ IF fin.threw
                            THEN outcome.kind = "throw" /\ outcome.class = "AutoResolverError"
                            ELSE outcome = Returned(fin.value)

C6_Witness ==
    /\ Done
    /\ CallScalar
    /\ CallHasFilter
    /\ CallServer # Undefined
    /\ CallServer.collections # {}
    /\ outcome.kind = "return"
    /\ outcome.value # Null

\* C8: the calls are made in the order model lookup, field filter, finishing step;
\* the filter gets the looked-up models coerced to a list; a return type whose name
\* ends with Connection is finished by relay pagination of the result coerced to a
\* list, with args, and without coerceReturnType (a null or undefined list is
\* returned as is, unpaginated); any other is finished by coerceReturnType and
\* never paginated.
C8_LookupFilterFinish ==
    Done =>
        LET filters == TraceIndexes({"fieldFilter"})
            paginates == TraceIndexes({"relayPaginateNodes"})
            coerces == TraceIndexes({"coerceReturnType"})
            finished == outcome.kind = "return" \/ (TraceIndexes(FinishOps) # {})
        IN  /\ \A i \in TraceIndexes(ServerOps) : \A j \in TraceIndexes(GuardedOps) : i < j
            /\ \A i \in filters : \A j \in TraceIndexes(FinishOps) : i < j
            /\ Cardinality(filters) <= 1
            /\ Cardinality(paginates) + Cardinality(coerces) <= 1
            /\ \A i \in filters :
                  trace[i].arg =
                      IF CallScalar \/ Nullish(errorMeta.match.models) THEN ListOf(<<>>)
                      ELSE errorMeta.match.models
            /\ (outcome.kind = "return" /\ CallHasFilter) => filters # {}
            /\ finished =>
                  IF CallNameEndsWithConnection
                  THEN /\ coerces = {}
                       /\ IF Nullish(coerceToList(result))
                          THEN paginates = {} /\ outcome = Returned(coerceToList(result))
                          ELSE /\ Cardinality(paginates) = 1
                               /\ \A i \in paginates :
                                     /\ trace[i].arg = coerceToList(result)
                                     /\ trace[i].args = call.args
                                     /\ ~trace[i].threw =>
                                           outcome = Returned(relayPaginateNodes(coerceToList(result), call.args).value)
                  ELSE /\ paginates = {}
                       /\ Cardinality(coerces) = 1
                       /\ \A i \in coerces :
                             /\ trace[i].arg = result
                             /\ ~trace[i].threw =>
                                   outcome = Returned(coerceReturnType(result, call.info).value)

C8_Witness ==
    /\ Done
    /\ outcome.kind = "return"
    /\ CallNameEndsWithConnection
    /\ TraceIndexes({"all"}) # {}
    /\ TraceIndexes({"fieldFilter"}) # {}
    /\ TraceIndexes({"relayPaginateNodes"}) # {}

\* C9: an error of the field filter, of relay pagination or of return-type coercion
\* is rethrown as an AutoResolverError whose meta has hasFieldFilter true exactly
\* when the mapper has a field filter for the field, and usedFieldFilter true
\* exactly when that filter was called and returned; a plain Error is never one of
\* these errors.
C9_GuardedErrorsAreWrapped ==
    Done =>
        LET thrown == {i \in TraceIndexes(GuardedOps) : trace[i].threw}
            filterReturned == \E i \in TraceIndexes({"fieldFilter"}) : ~trace[i].threw
        IN  /\ thrown # {} =>
                  /\ outcome.kind = "throw"
                  /\ outcome.class = "AutoResolverError"
                  /\ \E i \in thrown : outcome.cause = trace[i].op
            /\ (outcome.kind = "throw" /\ outcome.class = "AutoResolverError") =>
                  /\ thrown # {}
                  /\ outcome.meta.hasFieldFilter = CallHasFilter
                  /\ outcome.meta.usedFieldFilter = filterReturned
                  /\ outcome.meta.usedFieldFilter =
                        (CallHasFilter /\ CallMapper.fieldFilter # "throws")
            /\ (outcome.kind = "throw" /\ outcome.class = "Error") => thrown = {}

C9_Witness ==
    /\ Done
    /\ outcome.kind = "throw"
    /\ outcome.class = "AutoResolverError"
    /\ outcome.cause = "fieldFilter"
    /\ outcome.meta.hasFieldFilter
    /\ ~outcome.meta.usedFieldFilter

\* C10: for a non-scalar return type, when no candidate has a mirage collection (or
\* there is no mirage server) and schema.all fails, the resolver throws a plain
\* 'Unable to look up collection' Error, not an AutoResolverError, and does not
\* call the field filter; it returns nothing.
C10_FailedLookupThrowsPlainError ==
    ( /\ Done
      /\ ~CallScalar
      /\ PreferredModelName = Undefined
      /\ (CallServer = Undefined \/ CallServer.all = "throws") )
    => /\ outcome = PlainError("Unable to look up collection", Undefined)
       /\ TraceIndexes({"fieldFilter"}) = {}
       /\ errorMeta.match = Undefined
       /\ ~errorMeta.usedFieldFilter

C10_Witness ==
    /\ Done
    /\ ~CallScalar
    /\ CallHasFilter
    /\ CallServer # Undefined
    /\ PreferredModelName = Undefined
    /\ outcome = PlainError("Unable to look up collection", Undefined)

====
